---- MODULE Spec2Model ----
(***************************************************************************)
(* The race-state core of the Wikipedia race game (src/app/page.tsx, the   *)
(* Home component) together with the WikiFrame component that feeds the    *)
(* human's navigation into it.                                             *)
(*                                                                         *)
(* React state is modelled by one variable per useState cell.  A handler   *)
(* (a click, a timer callback, the continuation of an awaited fetch) is    *)
(* one atomic action: its functional setState updaters are applied in the  *)
(* order the handler issues them, and the render that follows (mounting or *)
(* unmounting WikiFrame, running or cleaning up the polling effect) is     *)
(* taken to be committed before the next event is delivered.  Everything   *)
(* a handler leaves in flight (a fetch, a timer, an awaited server action) *)
(* is kept in a variable and lands as a later action of its own.           *)
(*                                                                         *)
(* Strings are sequences of one-character strings, so that includes,       *)
(* replace, split and toLowerCase are computed as JavaScript computes them.*)
(***************************************************************************)
EXTENDS Integers, Sequences, FiniteSets, Bags, TLC

VARIABLES
    config,              \* useState config: "null" until fetchConfig resolves, then its env
    gameState,           \* useState gameState
    running,             \* useState running
    sessionId,           \* useState sessionId (0 is null)
    lastKnownUrl,        \* useState lastKnownUrl (<<>> is null)
    error,               \* useState error (<<>> is null, else <<message>>)
    isCommentaryLoading, \* useState isCommentaryLoading
    frame,               \* the mounted WikiFrame instance (currentUrl, isInitialLoad, fetches in flight)
    setups,              \* startGame calls suspended at an await: race number -> phase
    polls,               \* fetchSessionData calls suspended at their fetch (a set of closures)
    aiWonTimers,         \* pending setTimeout(() => endGame('ai-won'), 1000) callbacks: race -> count
    commentaryReqs,      \* generateEndGameCommentary calls suspended at their fetch (a bag)
    now,                 \* the wall clock read by new Date()
    raceNo,              \* history: how many times startGame has run
    clicks,              \* history: how many links the human has clicked
    issued,              \* history: how many polls have been issued
    ended,               \* history: the reason of the last endGame call since the last startGame ("" if none)
    call,                \* history under SpecOps: the updater applied last, its arguments, and
                         \* whether it repeats the call before it
    agent,               \* main() of src/app/api/stagehand/main.ts: its locals and its position
    pick                 \* a call of decideBestLink: its arguments, the reasoner's behaviour, its result

vars == <<config, gameState, running, sessionId, lastKnownUrl, error,
          isCommentaryLoading, frame, setups, polls, aiWonTimers,
          commentaryReqs, now, raceNo, ended, clicks, issued, call, agent, pick>>

-----------------------------------------------------------------------------
(* Bounds of the model *)

MaxTime == 1     \* the clock stops at MaxTime
MaxRaces == 2    \* startGame runs at most MaxRaces times
MaxPolls == 1    \* polls in flight at once
MaxLoads == 1    \* WikiFrame loads in flight at once
MaxClicks == 2   \* links the human clicks, over all races
MaxIssued == 2   \* polls issued, over all races

-----------------------------------------------------------------------------
(* Strings *)

\* s.includes(sub)
Includes(s, sub) ==
    \E i \in 0..(Len(s) - Len(sub)) : SubSeq(s, i + 1, i + Len(sub)) = sub

\* the index (from 1) of the first occurrence of sub in s at or after from, 0 if none
IndexOf(s, sub, from) ==
    LET hits == {i \in from..(Len(s) - Len(sub) + 1) :
                    SubSeq(s, i, i + Len(sub) - 1) = sub}
    IN IF hits = {} THEN 0 ELSE CHOOSE i \in hits : \A j \in hits : i <= j

\* s.replace(/a/g, b) for single characters a and b
ReplaceAll(s, a, b) == [i \in 1..Len(s) |-> IF s[i] = a THEN b ELSE s[i]]

\* s.replace(sub, '') with a string pattern: the first occurrence only
RemoveFirst(s, sub) ==
    LET i == IndexOf(s, sub, 1)
    IN IF i = 0 THEN s
       ELSE SubSeq(s, 1, i - 1) \o SubSeq(s, i + Len(sub), Len(s))

LowerChar(c) ==
    CASE c = "A" -> "a"
      [] c = "B" -> "b"
      [] c = "C" -> "c"
      [] c = "M" -> "m"
      [] c = "S" -> "s"
      [] c = "W" -> "w"
      [] OTHER -> c

\* c.toUpperCase() for one character
UpperChar(c) ==
    CASE c = "a" -> "A"
      [] c = "b" -> "B"
      [] c = "c" -> "C"
      [] c = "m" -> "M"
      [] c = "s" -> "S"
      [] c = "w" -> "W"
      [] c = "z" -> "Z"
      [] OTHER -> c

\* s.charAt(0): the empty string when s is empty
CharAt0(s) == IF s = <<>> THEN <<>> ELSE <<s[1]>>

\* s.toUpperCase()
ToUpperCase(s) == [i \in 1..Len(s) |-> UpperChar(s[i])]

\* s.trim() where the only white space is the space character
RECURSIVE Trim(_)
Trim(s) ==
    IF s = <<>> THEN s
    ELSE IF s[1] = " " THEN Trim(Tail(s))
    ELSE IF s[Len(s)] = " " THEN Trim(SubSeq(s, 1, Len(s) - 1))
    ELSE s

\* s.split(/\s+/): the pieces between maximal runs of spaces
RECURSIVE SplitSpaces(_, _, _)
SplitSpaces(s, cur, inRun) ==
    IF s = <<>> THEN <<cur>>
    ELSE IF s[1] = " "
         THEN (IF inRun THEN SplitSpaces(Tail(s), cur, TRUE)
               ELSE <<cur>> \o SplitSpaces(Tail(s), <<>>, TRUE))
    ELSE SplitSpaces(Tail(s), Append(cur, s[1]), FALSE)

\* s.toLowerCase()
ToLowerCase(s) == [i \in 1..Len(s) |-> LowerChar(s[i])]

Undefined == <<"undefined">>

\* url.split('/wiki/')[1]
SplitWiki1(url) ==
    LET sep == <<"/", "w", "i", "k", "i", "/">>
        i == IndexOf(url, sep, 1)
    IN IF i = 0 THEN Undefined
       ELSE LET rest == SubSeq(url, i + Len(sep), Len(url))
                j == IndexOf(rest, sep, 1)
            IN IF j = 0 THEN rest ELSE SubSeq(rest, 1, j - 1)

WikiBase == <<"h", "t", "t", "p", "s", ":", "/", "/", "e", "n", ".",
              "w", "i", "k", "i", "p", "e", "d", "i", "a", ".", "o", "r", "g">>
WikiSlash == <<"/", "w", "i", "k", "i", "/">>
WikiSuffix == <<" ", "-", " ", "W", "i", "k", "i", "p", "e", "d", "i", "a">>
UnknownPage == <<"U", "n", "k", "n", "o", "w", "n", " ", "P", "a", "g", "e">>

\* `https://en.wikipedia.org/wiki/${page}`
WikiUrl(page) == WikiBase \o WikiSlash \o page

\* extractTitleFromUrl: the path after /wiki/ up to # or ?, underscores to spaces
ExtractTitleFromUrl(url) ==
    LET i == IndexOf(url, WikiSlash, 1)
    IN IF i = 0 THEN UnknownPage
       ELSE LET rest == SubSeq(url, i + Len(WikiSlash), Len(url))
                stops == {k \in 1..Len(rest) : rest[k] \in {"#", "?"}}
                path == IF stops = {} THEN rest
                        ELSE SubSeq(rest, 1, (CHOOSE k \in stops : \A m \in stops : k <= m) - 1)
            IN IF path = <<>> THEN UnknownPage ELSE ReplaceAll(path, "_", " ")

-----------------------------------------------------------------------------
(* The pages of the model *)

TopicS == <<"S">>
TopicM == <<"M">>
TopicAb == <<"A", "_", "b">>

\* the (start, target) pairs startGame is called with
Pairs == { [start |-> TopicS, target |-> TopicAb] }

\* what /api/proxy answers for a url: the url and the page's <title> without ' - Wikipedia'
HumanPages ==
    { [url |-> WikiUrl(TopicS), title |-> <<"S">>],
      [url |-> WikiUrl(TopicM), title |-> <<"M">>],
      [url |-> WikiUrl(TopicAb), title |-> <<"A", " ", "b">>] }

HumanUrls == {p.url : p \in HumanPages}

\* what /api/browserbase answers as the session's last page: its url and browser title
AgentPages ==
    { [url |-> <<"a", "b", "o", "u", "t", ":", "b", "l", "a", "n", "k">>, title |-> <<>>],
      [url |-> WikiUrl(TopicS), title |-> <<"S">> \o WikiSuffix],
      [url |-> WikiUrl(TopicAb), title |-> <<"A", " ", "b">> \o WikiSuffix] }

-----------------------------------------------------------------------------
(* The race state and its updaters *)

NullTime == -1

InitialGameState ==
    [status |-> "not-started", startPage |-> <<>>, targetPage |-> <<>>,
     playerPath |-> <<>>, aiPath |-> <<>>, startTime |-> NullTime,
     endTime |-> NullTime, result |-> <<>>]

\* a faulty variant: a new race that keeps the result of the last one
StartedGameStateKeepingResult(start, target, t) ==
    [status |-> "in-progress", startPage |-> start, targetPage |-> target,
     playerPath |-> <<>>, aiPath |-> <<>>, startTime |-> t,
     endTime |-> NullTime, result |-> gameState.result]

\* a faulty variant: a new race that inherits the paths and the result of the last one
StartedGameStateKeepingPaths(start, target, t) ==
    [gameState EXCEPT !.status = "in-progress", !.startPage = start,
                      !.targetPage = target, !.startTime = t]

\* the object startGame passes to setGameState
StartedGameState(start, target, t) ==
    [status |-> "in-progress", startPage |-> start, targetPage |-> target,
     playerPath |-> <<>>, aiPath |-> <<>>, startTime |-> t,
     endTime |-> NullTime, result |-> <<>>]

PathHasUrl(path, url) == \E i \in 1..Len(path) : path[i].url = url

AiReachedTarget(gs) ==
    \E i \in 1..Len(gs.aiPath) :
        \/ ReplaceAll(gs.aiPath[i].title, " ", "_") = gs.targetPage
        \/ Includes(gs.aiPath[i].url, WikiSlash \o gs.targetPage)

PlayerReachedTarget(gs) ==
    \E i \in 1..Len(gs.playerPath) :
        ReplaceAll(gs.playerPath[i].title, " ", "_") = gs.targetPage

\* a faulty variant: the winner rule comparing path lengths before asking who reached the target
WinnerByLength(gs, reason) ==
    IF reason = "ai-won" THEN "ai"
    ELSE IF Len(gs.playerPath) <= Len(gs.aiPath) THEN "player" ELSE "ai"

\* a faulty variant: the winner rule without the short cut for the agent-won reason
WinnerIgnoringReason(gs, reason) ==
    IF AiReachedTarget(gs) /\ ~PlayerReachedTarget(gs) THEN "ai"
    ELSE IF PlayerReachedTarget(gs) /\ ~AiReachedTarget(gs) THEN "player"
    ELSE IF AiReachedTarget(gs) /\ PlayerReachedTarget(gs)
         THEN (IF Len(gs.playerPath) <= Len(gs.aiPath) THEN "player" ELSE "ai")
    ELSE "player"

\* the winner rule of endGame
Winner(gs, reason) ==
    IF reason = "ai-won" THEN "ai"
    ELSE IF AiReachedTarget(gs) /\ ~PlayerReachedTarget(gs) THEN "ai"
    ELSE IF PlayerReachedTarget(gs) /\ ~AiReachedTarget(gs) THEN "player"
    ELSE IF AiReachedTarget(gs) /\ PlayerReachedTarget(gs)
         THEN (IF Len(gs.playerPath) <= Len(gs.aiPath) THEN "player" ELSE "ai")
    ELSE "player"

PlayerTime(gs, t) == IF gs.startTime # NullTime THEN t - gs.startTime ELSE 0

AiTime(gs, t) ==
    IF Len(gs.aiPath) > 0
    THEN gs.aiPath[Len(gs.aiPath)].timestamp - gs.startTime
    ELSE PlayerTime(gs, t)

Placeholder == "generating commentary..."

\* tempResult of endGame
TempResult(gs, reason, t) ==
    [winner |-> Winner(gs, reason),
     playerClicks |-> Len(gs.playerPath),
     aiClicks |-> Len(gs.aiPath),
     playerTime |-> PlayerTime(gs, t),
     aiTime |-> AiTime(gs, t),
     commentary |-> Placeholder,
     rating |-> "mid"]

\* a faulty variant: endGame forgetting when the race began
EndGameStateClearingStart(gs, reason, t) ==
    [gs EXCEPT !.status = "completed", !.endTime = t, !.startTime = NullTime,
               !.result = <<TempResult(gs, reason, t)>>]

\* the updater endGame passes to setGameState (reason is not 'error')
EndGameState(gs, reason, t) ==
    [gs EXCEPT !.status = "completed", !.endTime = t,
               !.result = <<TempResult(gs, reason, t)>>]

\* a faulty variant: handlePlayerNavigation completing the race on a target step
PlayerNavigationCompletes(gs, url, title, t) ==
    LET appended == [gs EXCEPT !.playerPath =
                        Append(gs.playerPath, [url |-> url, title |-> title, timestamp |-> t])]
    IN IF PathHasUrl(gs.playerPath, url) THEN gs
       ELSE IF ReplaceAll(title, " ", "_") = gs.targetPage
            THEN EndGameState(appended, "completed", t)
            ELSE appended

\* a faulty variant: handlePlayerNavigation without the urlExists check
PlayerNavigationAlwaysAppends(gs, url, title, t) ==
    [gs EXCEPT !.playerPath =
        Append(gs.playerPath, [url |-> url, title |-> title, timestamp |-> t])]

\* the updater handlePlayerNavigation passes to setGameState
PlayerNavigationState(gs, url, title, t) ==
    IF PathHasUrl(gs.playerPath, url) THEN gs
    ELSE [gs EXCEPT !.playerPath =
            Append(gs.playerPath, [url |-> url, title |-> title, timestamp |-> t])]

\* isTargetReached of fetchSessionData
IsTargetReached(url, pageTitle, target) ==
    LET currentPagePath == SplitWiki1(url)
    IN \/ currentPagePath = target
       \/ ReplaceAll(pageTitle, " ", "_") = target
       \/ /\ currentPagePath # Undefined
          /\ currentPagePath # <<>>
          /\ target # <<>>
          /\ ToLowerCase(currentPagePath) = ToLowerCase(target)

\* pageTitle of fetchSessionData
PageTitle(url, title) ==
    LET stripped == RemoveFirst(title, WikiSuffix)
    IN IF stripped = <<>> THEN ExtractTitleFromUrl(url) ELSE stripped

\* a faulty variant: the updater of fetchSessionData without the urlExists check
AiStepAlwaysAppends(gs, url, pageTitle, t) ==
    [gs EXCEPT !.aiPath =
        Append(gs.aiPath, [url |-> url, title |-> pageTitle, timestamp |-> t])]

\* a faulty variant: the updater of fetchSessionData overwriting the last step
AiStepRewritesLast(gs, url, pageTitle, t) ==
    IF PathHasUrl(gs.aiPath, url) THEN gs
    ELSE [gs EXCEPT !.aiPath =
            Append(SubSeq(gs.aiPath, 1, Len(gs.aiPath) - 1),
                   [url |-> url, title |-> pageTitle, timestamp |-> t])]

\* the updater fetchSessionData passes to setGameState
AiStepState(gs, url, pageTitle, t) ==
    IF PathHasUrl(gs.aiPath, url) THEN gs
    ELSE [gs EXCEPT !.aiPath =
            Append(gs.aiPath, [url |-> url, title |-> pageTitle, timestamp |-> t])]

\* a faulty variant: the timer set without asking whether the player reached the target
SchedulesAiWonIgnoringPlayer(gs, url, pageTitle) ==
    /\ ~PathHasUrl(gs.aiPath, url)
    /\ IsTargetReached(url, pageTitle, gs.targetPage)

\* whether that updater calls setTimeout(() => endGame('ai-won'), 1000)
SchedulesAiWon(gs, url, pageTitle) ==
    /\ ~PathHasUrl(gs.aiPath, url)
    /\ IsTargetReached(url, pageTitle, gs.targetPage)
    /\ ~PlayerReachedTarget(gs)

\* a faulty variant: the polling effect not looking at running
PollingIgnoresRunning(status, isRunning, sid) ==
    status = "in-progress" /\ sid # 0

\* the condition under which the polling effect sets its interval
PollingActive(status, isRunning, sid) ==
    status = "in-progress" /\ isRunning /\ sid # 0

\* rating of the end-game commentary route, from the body of the request
Rating(winner, playerClicks, aiClicks, playerTime, aiTime) ==
    IF winner = "player"
    THEN (IF \/ playerClicks < aiClicks
             \/ (playerClicks = aiClicks /\ playerTime < aiTime)
          THEN "cracked" ELSE "mid")
    ELSE (IF aiClicks < playerClicks - 2 THEN "cooked" ELSE "mid")

\* a generateEndGameCommentary call in flight: the winner its closure holds (read by
\* the catch), the rating the route computes from the body it posted, and the race
\* whose endGame made the call (which the code keeps nowhere)
CommentaryRequest(gs, reason, t) ==
    LET r == TempResult(gs, reason, t)
    IN [winner |-> r.winner,
        rating |-> Rating(r.winner, r.playerClicks, r.aiClicks, r.playerTime, r.aiTime),
        race |-> raceNo]

Generated == "generated commentary"
FallbackPlayer == "you beat the ai! not bad for a human"
FallbackAi == "better luck next time, ai wins again"

\* a faulty variant: generateEndGameCommentary without the fallback of its catch
CommentaryStateNoFallback(gs, req, ok) ==
    IF gs.result = <<>> \/ ~ok THEN gs
    ELSE [gs EXCEPT !.result = <<[gs.result[1] EXCEPT !.commentary = Generated,
                                                       !.rating = req.rating]>>]

\* the updater of generateEndGameCommentary: on the route's answer (ok), or in the catch
CommentaryState(gs, req, ok) ==
    IF gs.result = <<>> THEN gs
    ELSE IF ok
    THEN [gs EXCEPT !.result = <<[gs.result[1] EXCEPT !.commentary = Generated,
                                                       !.rating = req.rating]>>]
    ELSE [gs EXCEPT !.result =
            <<[gs.result[1] EXCEPT
                 !.commentary = IF req.winner = "player" THEN FallbackPlayer ELSE FallbackAi,
                 !.rating = IF req.winner = "player" THEN "cracked" ELSE "cooked"]>>]

-----------------------------------------------------------------------------
(* WikiFrame *)

NoFrame ==
    [mounted |-> FALSE, currentUrl |-> <<>>, isInitialLoad |-> TRUE,
     hasContent |-> FALSE, loads |-> {}]

\* a WikiFrame as mounted: useState(currentUrl), isInitialLoad, and the load its effect starts
MountedFrame(startPage) ==
    [mounted |-> TRUE, currentUrl |-> WikiUrl(startPage), isInitialLoad |-> TRUE,
     hasContent |-> FALSE, loads |-> {WikiUrl(startPage)}]

\* loadWikipediaContent: whether the load is reported to onNavigation
NotifiesNavigation(isInitialLoad, url, startPage) ==
    ~isInitialLoad \/ ~Includes(url, WikiSlash \o startPage)

\* loadWikipediaContent: whether onTargetReached is called
FrameTargetReached(url, title, targetPage) ==
    \/ Includes(ToLowerCase(url), ToLowerCase(targetPage))
    \/ Includes(ToLowerCase(title), ReplaceAll(ToLowerCase(targetPage), "_", " "))

-----------------------------------------------------------------------------
(* Initial state *)

Races == 1..MaxRaces

\* null, where a link is expected
Null == [text |-> <<"null">>, href |-> <<>>]

\* a reasoner response whose message content is null
NoContent == [kind |-> "null", content |-> <<>>]

\* before any call of decideBestLink
NoPick == [done |-> FALSE, calls |-> 0, given |-> <<>>, links |-> <<>>, sample |-> <<>>,
           reply |-> NoContent, rnd |-> 0, asked |-> FALSE, bestLink |-> Null]

\* before main() is called
IdleAgent == [pc |-> "idle", targetPage |-> <<>>, path |-> <<>>, targetReached |-> FALSE,
              maxAttempts |-> 0, page |-> [url |-> <<>>, title |-> <<>>],
              links |-> <<>>, bestLink |-> Null, report |-> "", iter |-> 0, thrown |-> 0]

Call(op, url, reason, pre, prev) ==
    [op |-> op, url |-> url, reason |-> reason, pre |-> pre,
     repeat |-> (prev.op = op /\ prev.url = url /\ prev.reason = reason)]

NoCall == [op |-> "", url |-> <<>>, reason |-> "", pre |-> "", repeat |-> FALSE]

Init ==
    /\ config = "null"
    /\ gameState = InitialGameState
    /\ running = FALSE
    /\ sessionId = 0
    /\ lastKnownUrl = <<>>
    /\ error = <<>>
    /\ isCommentaryLoading = FALSE
    /\ frame = NoFrame
    /\ setups = [r \in Races |-> "none"]
    /\ polls = {}
    /\ aiWonTimers = [r \in Races |-> 0]
    /\ commentaryReqs = EmptyBag
    /\ now = 0
    /\ raceNo = 0
    /\ ended = ""
    /\ clicks = 0
    /\ issued = 0
    /\ call = NoCall
    /\ agent = IdleAgent
    /\ pick = NoPick

-----------------------------------------------------------------------------
(* Handlers *)

\* fetchConfig resolves: setConfig(config)
FetchConfig(env) ==
    /\ UNCHANGED <<clicks, issued, call, agent, pick>>
    /\ config = "null"
    /\ config' = env
    /\ UNCHANGED <<gameState, running, sessionId, lastKnownUrl, error,
                   isCommentaryLoading, frame, setups, polls, aiWonTimers,
                   commentaryReqs, now, raceNo, ended>>

\* a faulty variant: a start button rendered in every status
StartButtonAlwaysShown == config # "null"

\* the buttons that call startGame are rendered while not-started and while completed
StartButtonShown == config # "null" /\ gameState.status \in {"not-started", "completed"}

\* startGame up to its first await
StartGame(pair) ==
    /\ UNCHANGED <<clicks, issued, call, agent, pick>>
    /\ StartButtonShown
    /\ raceNo < MaxRaces
    /\ gameState' = StartedGameState(pair.start, pair.target, now)
    /\ running' = TRUE
    /\ raceNo' = raceNo + 1
    /\ setups' = [setups EXCEPT ![raceNo + 1] =
                    IF config = "BROWSERBASE" THEN "session" ELSE "run"]
    /\ frame' = MountedFrame(pair.start)
    /\ ended' = ""
    /\ UNCHANGED <<config, sessionId, lastKnownUrl, error, isCommentaryLoading,
                   polls, aiWonTimers, commentaryReqs, now>>

\* startGame resumes after startBBSSession: setDebugUrl, setSessionId, then awaits runStagehand
SessionStarted(r) ==
    /\ UNCHANGED <<clicks, issued, call, agent, pick>>
    /\ setups[r] = "session"
    /\ sessionId' = r
    /\ setups' = [setups EXCEPT ![r] = "run"]
    /\ UNCHANGED <<config, gameState, running, lastKnownUrl, error,
                   isCommentaryLoading, frame, polls, aiWonTimers,
                   commentaryReqs, now, raceNo, ended>>

\* endGame(reason) applied to the race state gs: setRunning, setLastKnownUrl, setGameState
EndGame(gs, reason) ==
    /\ ended' = reason
    /\ running' = FALSE
    /\ lastKnownUrl' = <<>>
    /\ IF reason = "error"
       THEN /\ gameState' = gs
            /\ UNCHANGED <<commentaryReqs, isCommentaryLoading>>
       ELSE /\ gameState' = EndGameState(gs, reason, now)
            /\ commentaryReqs' = commentaryReqs (+) SetToBag({CommentaryRequest(gs, reason, now)})
            /\ isCommentaryLoading' = TRUE

\* startBBSSession or runStagehand rejects: the catch of startGame.  (When runStagehand
\* resolves instead, startGame returns without touching any state: that is the
\* behaviour in which this action is never taken for r.)
SetupFailed(r) ==
    /\ UNCHANGED <<clicks, issued, call, agent, pick>>
    /\ setups[r] \in {"session", "run"}
    /\ setups' = [setups EXCEPT ![r] = "done"]
    /\ error' = <<"setup failed">>
    /\ EndGame(gameState, "error")
    /\ UNCHANGED <<config, sessionId, frame, polls, aiWonTimers, now, raceNo>>

\* a click on a link of the page WikiFrame shows: setCurrentUrl, and the effect loads it
ClickLink(url) ==
    /\ clicks < MaxClicks
    /\ clicks' = clicks + 1
    /\ UNCHANGED <<issued, call, agent, pick>>
    /\ frame.mounted
    /\ frame.hasContent
    /\ url # frame.currentUrl
    /\ Cardinality(frame.loads \cup {url}) <= MaxLoads
    /\ frame' = [frame EXCEPT !.currentUrl = url, !.loads = @ \cup {url}]
    /\ UNCHANGED <<config, gameState, running, sessionId, lastKnownUrl, error,
                   isCommentaryLoading, setups, polls, aiWonTimers,
                   commentaryReqs, now, raceNo, ended>>

\* loadWikipediaContent fails (the proxy answers an error, or the page has no #content)
LoadFails(url) ==
    /\ UNCHANGED <<clicks, issued, call, agent, pick>>
    /\ frame.mounted
    /\ url \in frame.loads
    /\ frame' = [frame EXCEPT !.loads = @ \ {url}]
    /\ UNCHANGED <<config, gameState, running, sessionId, lastKnownUrl, error,
                   isCommentaryLoading, setups, polls, aiWonTimers,
                   commentaryReqs, now, raceNo, ended>>

\* loadWikipediaContent resumes with the page: onNavigation, then onTargetReached
LoadLands(page) ==
    /\ UNCHANGED <<clicks, issued, call, agent, pick>>
    /\ frame.mounted
    /\ page.url \in frame.loads
    /\ LET notify == NotifiesNavigation(frame.isInitialLoad, page.url, gameState.startPage)
           gs1 == IF notify
                  THEN PlayerNavigationState(gameState, page.url, page.title, now)
                  ELSE gameState
       IN IF FrameTargetReached(page.url, page.title, gameState.targetPage)
          THEN /\ EndGame(gs1, "completed")
               /\ frame' = NoFrame
          ELSE /\ gameState' = gs1
               /\ frame' = [frame EXCEPT !.loads = @ \ {page.url},
                                         !.isInitialLoad = FALSE,
                                         !.hasContent = TRUE]
               /\ UNCHANGED <<running, lastKnownUrl, commentaryReqs, isCommentaryLoading,
                              ended>>
    /\ UNCHANGED <<config, sessionId, error, setups, polls, aiWonTimers, now, raceNo>>

\* the polling effect is active: fetchSessionData is called and suspends at its fetch
PollIssue ==
    /\ issued < MaxIssued
    /\ issued' = issued + 1
    /\ UNCHANGED <<clicks, call, agent, pick>>
    /\ PollingActive(gameState.status, running, sessionId)
    /\ Cardinality(polls) < MaxPolls
    /\ [sid |-> sessionId, lku |-> lastKnownUrl] \notin polls
    /\ polls' = polls \cup {[sid |-> sessionId, lku |-> lastKnownUrl]}
    /\ UNCHANGED <<config, gameState, running, sessionId, lastKnownUrl, error,
                   isCommentaryLoading, frame, setups, aiWonTimers,
                   commentaryReqs, now, raceNo, ended>>

\* fetchSessionData gets no usable answer: response not ok, fetch throws, or no pages
PollFails(p) ==
    /\ UNCHANGED <<clicks, issued, call, agent, pick>>
    /\ p \in polls
    /\ polls' = polls \ {p}
    /\ UNCHANGED <<config, gameState, running, sessionId, lastKnownUrl, error,
                   isCommentaryLoading, frame, setups, aiWonTimers,
                   commentaryReqs, now, raceNo, ended>>

\* fetchSessionData resumes with the session's current page
PollLands(p, page) ==
    /\ UNCHANGED <<clicks, issued, call, agent, pick>>
    /\ p \in polls
    /\ polls' = polls \ {p}
    /\ IF page.url = p.lku
       THEN UNCHANGED <<lastKnownUrl, gameState, aiWonTimers>>
       ELSE /\ lastKnownUrl' = page.url
            /\ IF Includes(page.url, <<"w", "i", "k", "i", "p", "e", "d", "i", "a", ".",
                                       "o", "r", "g">> \o WikiSlash)
               THEN LET pageTitle == PageTitle(page.url, page.title)
                    IN /\ gameState' = AiStepState(gameState, page.url, pageTitle, now)
                       /\ aiWonTimers' =
                            IF SchedulesAiWon(gameState, page.url, pageTitle)
                            THEN [aiWonTimers EXCEPT ![raceNo] = @ + 1]
                            ELSE aiWonTimers
               ELSE UNCHANGED <<gameState, aiWonTimers>>
    /\ UNCHANGED <<config, running, sessionId, error, isCommentaryLoading, frame,
                   setups, commentaryReqs, now, raceNo, ended>>

\* a setTimeout(() => endGame('ai-won'), 1000) callback set during race r runs
FireAiWon(r) ==
    /\ UNCHANGED <<clicks, issued, call, agent, pick>>
    /\ aiWonTimers[r] > 0
    /\ aiWonTimers' = [aiWonTimers EXCEPT ![r] = @ - 1]
    /\ EndGame(gameState, "ai-won")
    /\ frame' = NoFrame
    /\ UNCHANGED <<config, sessionId, error, setups, polls, now, raceNo>>

\* generateEndGameCommentary resumes with the route's answer (ok) or in its catch
CommentaryLands(req, ok) ==
    /\ UNCHANGED <<clicks, issued, call, agent, pick>>
    /\ BagIn(req, commentaryReqs)
    /\ gameState' = CommentaryState(gameState, req, ok)
    /\ commentaryReqs' = commentaryReqs (-) SetToBag({req})
    /\ isCommentaryLoading' = FALSE
    /\ UNCHANGED <<config, running, sessionId, lastKnownUrl, error, frame,
                   setups, polls, aiWonTimers, now, raceNo, ended>>

\* time passes
Tick ==
    /\ UNCHANGED <<clicks, issued, call, agent, pick>>
    /\ now < MaxTime
    /\ now' = now + 1
    /\ UNCHANGED <<config, gameState, running, sessionId, lastKnownUrl, error,
                   isCommentaryLoading, frame, setups, polls, aiWonTimers,
                   commentaryReqs, raceNo, ended>>

Next ==
    \/ \E env \in {"BROWSERBASE", "LOCAL"} : FetchConfig(env)
    \/ \E pair \in Pairs : StartGame(pair)
    \/ \E r \in Races : SessionStarted(r)
    \/ \E r \in Races : SetupFailed(r)
    \/ \E url \in HumanUrls : ClickLink(url)
    \/ \E url \in HumanUrls : LoadFails(url)
    \/ \E page \in HumanPages : LoadLands(page)
    \/ PollIssue
    \/ \E p \in polls : PollFails(p)
    \/ \E p \in polls, page \in AgentPages : PollLands(p, page)
    \/ \E r \in Races : FireAiWon(r)
    \/ \E req \in BagToSet(commentaryReqs), ok \in BOOLEAN : CommentaryLands(req, ok)
    \/ Tick

Spec == Init /\ [][Next]_vars

-----------------------------------------------------------------------------
(* The race state under its updaters alone: each updater the component passes to    *)
(* setGameState, applied to the race state in any status and with any argument.     *)

\* the pages the updater of fetchSessionData is applied to
AgentStepPages ==
    {p \in AgentPages : Includes(p.url, WikiSlash)}
        \cup {[url |-> WikiUrl(TopicM), title |-> <<"M">> \o WikiSuffix]}

OpsUnchanged ==
    UNCHANGED <<config, running, sessionId, lastKnownUrl, error, isCommentaryLoading,
                frame, setups, polls, aiWonTimers, commentaryReqs, now, raceNo, ended,
                clicks, issued, agent, pick>>

\* startGame: setGameState({status: 'in-progress', ...})
ApplyStartGame(pair) ==
    /\ gameState' = StartedGameState(pair.start, pair.target, now)
    /\ call' = Call("startGame", <<>>, "", gameState.status, call)
    /\ OpsUnchanged

\* handlePlayerNavigation(url, title)
ApplyPlayerNavigation(page) ==
    /\ gameState' = PlayerNavigationState(gameState, page.url, page.title, now)
    /\ call' = Call("handlePlayerNavigation", page.url, "", gameState.status, call)
    /\ OpsUnchanged

\* the updater of fetchSessionData for a page of the session
ApplyAiStep(page) ==
    /\ gameState' = AiStepState(gameState, page.url, PageTitle(page.url, page.title), now)
    /\ call' = Call("recordAgentStep", page.url, "", gameState.status, call)
    /\ OpsUnchanged

\* endGame(reason), reason not 'error'
ApplyEndGame(reason) ==
    /\ gameState' = EndGameState(gameState, reason, now)
    /\ call' = Call("endGame", <<>>, reason, gameState.status, call)
    /\ OpsUnchanged

NextOps ==
    \/ \E pair \in Pairs : ApplyStartGame(pair)
    \/ \E page \in HumanPages : ApplyPlayerNavigation(page)
    \/ \E page \in AgentStepPages : ApplyAiStep(page)
    \/ \E reason \in {"completed", "ai-won"} : ApplyEndGame(reason)

SpecOps == Init /\ [][NextOps]_vars

\* a page whose name begins with the target's name, as /api/proxy answers for it
PrefixPage ==
    [url |-> WikiUrl(TopicAb \o <<"c">>), title |-> <<"A", " ", "b", "c">>]

\* the component with a link to PrefixPage among the links the human can click
NextFrame ==
    \/ Next
    \/ ClickLink(PrefixPage.url)
    \/ LoadFails(PrefixPage.url)
    \/ LoadLands(PrefixPage)

SpecFrame == Init /\ [][NextFrame]_vars

\* setTimeout callbacks run: a pending endGame('ai-won') is eventually called
FairSpec == Spec /\ \A r \in Races : WF_vars(FireAiWon(r))

\* the fetch of generateEndGameCommentary settles: a pending request is eventually
\* answered or fails
FairCommentary ==
    Spec /\ WF_vars(\E req \in BagToSet(commentaryReqs), ok \in BOOLEAN :
                        CommentaryLands(req, ok))

-----------------------------------------------------------------------------
(* The agent: src/app/api/stagehand/main.ts.  decideBestLink is computed on link   *)
(* lists and reasoner behaviours drawn from small sets; main() is a loop whose     *)
(* driver calls (page.title, page.act, page.goBack, ...) each return or throw.     *)

MaxLinks == 3    \* candidates in a list given to a direct call of decideBestLink

Link(text, n) == [text |-> text, href |-> WikiSlash \o <<n>>]

\* the candidates of the model: two with the same text, one differing from them in
\* case only at its start, one longer than 10 characters, one starting with a digit
Links ==
    { Link(<<"a", "b">>, "1"),
      Link(<<"a", "b">>, "2"),
      Link(<<"A", "b", " ", "c">>, "3"),
      Link(<<"a", "b", " ", "c">>, "4"),
      Link(<<"c", "c", "c", "c", "c", "c", "c", "c", "c", "c", "c">>, "5"),
      Link(<<"1", "a">>, "6") }

RECURSIVE ListsUpTo(_, _)
ListsUpTo(S, n) ==
    IF n = 0 THEN {<<>>}
    ELSE LET shorter == ListsUpTo(S, n - 1)
         IN shorter \cup {Append(l, x) : l \in {m \in shorter : Len(m) = n - 1}, x \in S}

LinkLists == ListsUpTo(Links, MaxLinks)

\* what openai.chat.completions.create does: it throws, or it resolves with a message
\* whose content is null or a text
Throws == [kind |-> "throws", content |-> <<>>]
Content(text) == [kind |-> "text", content |-> text]

Replies ==
    { Throws, NoContent,
      Content(<<" ", " ">>),
      Content(<<" ", "a", "b", " ">>),
      Content(<<"A", "B">>),
      Content(<<"a", "b", " ", "z", "z">>),
      Content(<<"A", "B", " ", "z", "z">>),
      Content(<<"A", "B", " ", "c", " ", "z">>),
      Content(<<"z", "z">>) }

\* links.find(pred), hits being the positions where pred holds: the first such
\* element in list order, Null (undefined) if none
Find(links, hits) ==
    IF hits = {} THEN Null
    ELSE links[CHOOSE i \in hits : \A j \in hits : i <= j]

\* a faulty variant: tier 1 already accepts containment
ExactMatchByContainment(links, bestLinkText) ==
    Find(links, {i \in 1..Len(links) :
                    \/ links[i].text = bestLinkText
                    \/ Includes(links[i].text, bestLinkText)
                    \/ Includes(bestLinkText, links[i].text)})

\* tier 1: link.text === bestLinkText
ExactMatch(links, bestLinkText) ==
    Find(links, {i \in 1..Len(links) : links[i].text = bestLinkText})

\* a faulty variant: tier 2 without the comparison that ignores case
FuzzyMatchCaseSensitive(links, bestLinkText) ==
    Find(links, {i \in 1..Len(links) :
                    \/ Includes(links[i].text, bestLinkText)
                    \/ Includes(bestLinkText, links[i].text)})

\* tier 2: containment either way, or equality ignoring case
FuzzyMatch(links, bestLinkText) ==
    Find(links, {i \in 1..Len(links) :
                    \/ Includes(links[i].text, bestLinkText)
                    \/ Includes(bestLinkText, links[i].text)
                    \/ ToLowerCase(links[i].text) = ToLowerCase(bestLinkText)})

\* bestLinkWords
BestLinkWords(bestLinkText) == SplitSpaces(ToLowerCase(bestLinkText), <<>>, FALSE)

\* the numerator of a link's score: the words found in its lower-case text
WordsFound(link, words) ==
    Cardinality({k \in 1..Len(words) : Includes(ToLowerCase(link.text), words[k])})

\* a faulty variant: a score of exactly 0.5 is accepted
TokenMatchAtHalf(links, bestLinkText) ==
    LET words == BestLinkWords(bestLinkText)
        best == CHOOSE i \in 1..Len(links) :
                    \A j \in 1..Len(links) :
                        \/ WordsFound(links[j], words) < WordsFound(links[i], words)
                        \/ (WordsFound(links[j], words) = WordsFound(links[i], words) /\ i <= j)
    IN IF 2 * WordsFound(links[best], words) >= Len(words) THEN links[best] ELSE Null

\* tier 3: linkScores sorted by score descending (the sort is stable, so the first
\* link of the highest score comes first), taken if its score exceeds 0.5
TokenMatch(links, bestLinkText) ==
    LET words == BestLinkWords(bestLinkText)
        best == CHOOSE i \in 1..Len(links) :
                    \A j \in 1..Len(links) :
                        \/ WordsFound(links[j], words) < WordsFound(links[i], words)
                        \/ (WordsFound(links[j], words) = WordsFound(links[i], words) /\ i <= j)
    IN IF 2 * WordsFound(links[best], words) > Len(words) THEN links[best] ELSE Null

\* potentialGoodLinks
PotentialGoodLinks(links) ==
    SelectSeq(links, LAMBDA link :
        Len(link.text) > 10 \/ ToUpperCase(CharAt0(link.text)) = CharAt0(link.text))

\* fallbackLinks
FallbackLinks(links) ==
    IF Len(PotentialGoodLinks(links)) > 0 THEN PotentialGoodLinks(links) ELSE links

\* a faulty variant: an answer that matches no candidate is returned as a link of its own
DecideBestLinkFabricates(links, reply, rnd) ==
    IF Len(links) = 0 THEN Null
    ELSE IF reply.kind = "throws"
         THEN FallbackLinks(links)[(rnd % Len(FallbackLinks(links))) + 1]
    ELSE LET bestLinkText == IF reply.kind = "null" THEN <<>> ELSE Trim(reply.content)
         IN IF bestLinkText = <<>> THEN links[1]
            ELSE IF ExactMatch(links, bestLinkText) # Null
                 THEN ExactMatch(links, bestLinkText)
            ELSE IF FuzzyMatch(links, bestLinkText) # Null
                 THEN FuzzyMatch(links, bestLinkText)
            ELSE IF TokenMatch(links, bestLinkText) # Null
                 THEN TokenMatch(links, bestLinkText)
            ELSE [text |-> bestLinkText, href |-> WikiSlash \o bestLinkText]

\* a faulty variant: an empty answer gives null instead of the first candidate
DecideBestLinkNullOnEmptyAnswer(links, reply, rnd) ==
    IF Len(links) = 0 THEN Null
    ELSE IF reply.kind = "throws"
         THEN FallbackLinks(links)[(rnd % Len(FallbackLinks(links))) + 1]
    ELSE LET bestLinkText == IF reply.kind = "null" THEN <<>> ELSE Trim(reply.content)
         IN IF bestLinkText = <<>> THEN Null
            ELSE IF ExactMatch(links, bestLinkText) # Null
                 THEN ExactMatch(links, bestLinkText)
            ELSE IF FuzzyMatch(links, bestLinkText) # Null
                 THEN FuzzyMatch(links, bestLinkText)
            ELSE IF TokenMatch(links, bestLinkText) # Null
                 THEN TokenMatch(links, bestLinkText)
            ELSE links[1]

\* decideBestLink(links, ...) with the reasoner behaving as reply and Math.random()
\* making the fallback index rnd (used modulo the length of fallbackLinks)
DecideBestLink(links, reply, rnd) ==
    IF Len(links) = 0 THEN Null
    ELSE IF reply.kind = "throws"
         THEN FallbackLinks(links)[(rnd % Len(FallbackLinks(links))) + 1]
    ELSE LET bestLinkText == IF reply.kind = "null" THEN <<>> ELSE Trim(reply.content)
         IN IF bestLinkText = <<>> THEN links[1]
            ELSE IF ExactMatch(links, bestLinkText) # Null
                 THEN ExactMatch(links, bestLinkText)
            ELSE IF FuzzyMatch(links, bestLinkText) # Null
                 THEN FuzzyMatch(links, bestLinkText)
            ELSE IF TokenMatch(links, bestLinkText) # Null
                 THEN TokenMatch(links, bestLinkText)
            ELSE links[1]

SampleSize == 75   \* links.slice(0, 75)

\* a faulty variant: every link is put into the prompt
LinkSampleWhole(links) == links

\* linkSample: the links formatted into the prompt
LinkSample(links) ==
    IF Len(links) > SampleSize THEN SubSeq(links, 1, SampleSize) ELSE links

\* whether decideBestLink reaches openai.chat.completions.create
ConsultsReasoner(links) == Len(links) # 0

\* linkScores after linkScores.sort((a, b) => b.score - a.score), as the links it
\* holds: the sort is stable, so links of one score keep their order
RECURSIVE SortedByScore(_, _, _)
SortedByScore(links, words, score) ==
    IF score < 0 THEN <<>>
    ELSE SelectSeq(links, LAMBDA link : WordsFound(link, words) = score)
             \o SortedByScore(links, words, score - 1)

\* a faulty variant: tier 3 sorts the caller's array instead of linkScores
ListAfterCallSortedInPlace(links, reply) ==
    IF Len(links) = 0 \/ reply.kind # "text" \/ Trim(reply.content) = <<>> THEN links
    ELSE IF ExactMatch(links, Trim(reply.content)) # Null THEN links
    ELSE IF FuzzyMatch(links, Trim(reply.content)) # Null THEN links
    ELSE SortedByScore(links, BestLinkWords(Trim(reply.content)),
                       Len(BestLinkWords(Trim(reply.content))))

\* the caller's array when decideBestLink has returned: slice, map, find and filter
\* build new arrays or none, and sort is applied to linkScores, the array map built
ListAfterCall(links, reply) == links

\* the record of a call of decideBestLink on an array that holds links; given is
\* what the array held before the first of the calls made on it
PickOf(calls, given, links, reply, rnd) ==
    [done |-> TRUE, calls |-> calls, given |-> given,
     links |-> ListAfterCall(links, reply),
     sample |-> IF ConsultsReasoner(links) THEN LinkSample(links) ELSE <<>>,
     reply |-> IF ConsultsReasoner(links) THEN reply ELSE NoContent,
     rnd |-> IF ConsultsReasoner(links) /\ reply.kind = "throws" THEN rnd ELSE 0,
     asked |-> ConsultsReasoner(links),
     bestLink |-> DecideBestLink(links, reply, rnd)]

\* one call of decideBestLink
DecideBestLinkCall(links, reply, rnd) ==
    /\ agent.pc = "idle"
    /\ ~pick.done
    /\ pick' = PickOf(1, links, links, reply, rnd)
    /\ UNCHANGED <<config, gameState, running, sessionId, lastKnownUrl, error,
                   isCommentaryLoading, frame, setups, polls, aiWonTimers,
                   commentaryReqs, now, raceNo, ended, clicks, issued, call, agent>>

MaxCalls == 2   \* calls of decideBestLink made on one array

\* a further call of decideBestLink on the array of the call before it
DecideBestLinkAgain(reply, rnd) ==
    /\ agent.pc = "idle"
    /\ pick.done
    /\ pick.calls < MaxCalls
    /\ pick' = PickOf(pick.calls + 1, pick.given, pick.links, reply, rnd)
    /\ UNCHANGED <<config, gameState, running, sessionId, lastKnownUrl, error,
                   isCommentaryLoading, frame, setups, polls, aiWonTimers,
                   commentaryReqs, now, raceNo, ended, clicks, issued, call, agent>>

MaxTail == 2    \* links that follow the first SampleSize links of a long list

\* a link whose text no answer of the model matches in any tier
Filler == Link(<<"m", "w">>, "0")

\* lists of SampleSize links and more
LongLists ==
    { [i \in 1..SampleSize |-> Filler] \o tail : tail \in ListsUpTo(Links, MaxTail) }

\* decideBestLink called on lists short and long, and again on the same array
NextSelect ==
    \/ \E links \in LinkLists \cup LongLists, reply \in Replies, rnd \in 0..(MaxLinks - 1) :
          DecideBestLinkCall(links, reply, rnd)
    \/ \E reply \in Replies, rnd \in 0..(MaxLinks - 1) : DecideBestLinkAgain(reply, rnd)

SpecSelect == Init /\ [][NextSelect]_vars

MaxAttempts == 15   \* let maxAttempts = 15

MaxPageLinks == 1   \* links getWikipediaLinks finds on a page

MaxThrows == 3      \* calls that throw inside the loop of one run of main

\* the pages the driver can be on: the start page and the target page
NavPages == {p \in AgentPages : Includes(p.url, WikiSlash)}

\* the link lists getWikipediaLinks returns
PageLinkLists ==
    ListsUpTo({Link(<<"a", "b">>, "1"), Link(<<"A", "b", " ", "c">>, "3")}, MaxPageLinks)

\* the target check at the top of the loop body
TargetDetected(title, url, targetPage) ==
    \/ Includes(ToLowerCase(title), ReplaceAll(ToLowerCase(targetPage), "_", " "))
    \/ Includes(ToLowerCase(url), ToLowerCase(targetPage))

\* the while condition
LoopContinues(targetReached, maxAttempts) == ~targetReached /\ maxAttempts > 0

\* path.pop(): nothing happens on an empty array
Pop(path) == IF path = <<>> THEN path ELSE SubSeq(path, 1, Len(path) - 1)

\* the reasoner's behaviours inside the loop
PageReplies == {Throws, NoContent, Content(<<"A", "B", " ", "c", " ", "z">>)}

\* a driver call returns (ok) or throws
Outcome(ok) == ok \/ agent.thrown < MaxThrows

\* the locals after a call that threw: links and bestLink are scoped to the try block
Thrown(a) == [a EXCEPT !.thrown = @ + 1, !.links = <<>>, !.bestLink = Null]

\* the locals at the end of an iteration: maxAttempts--, and back to the loop condition
Decremented(a) ==
    [a EXCEPT !.maxAttempts = @ - 1, !.pc = "head", !.links = <<>>, !.bestLink = Null]

AgentUnchanged ==
    UNCHANGED <<config, gameState, running, sessionId, lastKnownUrl, error,
                isCommentaryLoading, frame, setups, polls, aiWonTimers,
                commentaryReqs, now, raceNo, ended, clicks, issued, call, pick>>

\* main({page, gameParams}) up to the loop: page.goto(start) returns or throws
Main(pair, ok) ==
    /\ agent.pc = "idle"
    /\ ~pick.done
    /\ agent' = IF ok
                THEN [pc |-> "head", targetPage |-> pair.target, path |-> <<pair.start>>,
                      targetReached |-> FALSE, maxAttempts |-> MaxAttempts,
                      page |-> CHOOSE p \in NavPages : p.url = WikiUrl(pair.start),
                      links |-> <<>>, bestLink |-> Null, report |-> "", iter |-> 0, thrown |-> 0]
                ELSE [agent EXCEPT !.pc = "failed"]
    /\ AgentUnchanged

\* while (!targetReached && maxAttempts > 0)
LoopHead ==
    /\ agent.pc = "head"
    /\ agent' = IF LoopContinues(agent.targetReached, agent.maxAttempts)
                THEN [agent EXCEPT !.pc = "title", !.iter = @ + 1]
                ELSE [agent EXCEPT !.pc = "report"]
    /\ AgentUnchanged

\* page.title(), page.url() and the target check
CheckTarget(ok) ==
    /\ agent.pc = "title"
    /\ Outcome(ok)
    /\ agent' = IF ~ok THEN Thrown([agent EXCEPT !.pc = "recover"])
                ELSE IF TargetDetected(agent.page.title, agent.page.url, agent.targetPage)
                     THEN [agent EXCEPT !.targetReached = TRUE, !.pc = "report"]
                ELSE [agent EXCEPT !.pc = "links"]
    /\ AgentUnchanged

\* getWikipediaLinks(page)
CollectLinks(ok, links) ==
    /\ agent.pc = "links"
    /\ Outcome(ok)
    /\ agent' = IF ~ok THEN Thrown([agent EXCEPT !.pc = "recover"])
                ELSE IF Len(links) = 0 THEN [agent EXCEPT !.links = links, !.pc = "back"]
                ELSE [agent EXCEPT !.links = links, !.pc = "decide"]
    /\ AgentUnchanged

\* const bestLink = await decideBestLink(links, ...); if (bestLink) ... else ...
Decide(reply, rnd) ==
    /\ agent.pc = "decide"
    /\ LET bestLink == DecideBestLink(agent.links, reply, rnd)
       IN agent' = [agent EXCEPT !.bestLink = bestLink,
                                 !.pc = IF bestLink # Null THEN "click" ELSE "back"]
    /\ AgentUnchanged

\* page.act(click), page.waitForLoadState, page.title, path.push; then maxAttempts--
Click(ok, page) ==
    /\ agent.pc = "click"
    /\ Outcome(ok)
    /\ agent' = IF ok
                THEN Decremented([agent EXCEPT
                         !.page = page,
                         !.path = Append(@, RemoveFirst(page.title, WikiSuffix))])
                ELSE Thrown([agent EXCEPT !.page = page, !.pc = "recover"])
    /\ AgentUnchanged

\* the dead end (no links, or no bestLink): page.goBack(), path.pop(); then maxAttempts--
GoBack(ok, page) ==
    /\ agent.pc = "back"
    /\ Outcome(ok)
    /\ agent' = IF ok
                THEN Decremented([agent EXCEPT !.page = page, !.path = Pop(@)])
                ELSE Thrown([agent EXCEPT !.pc = "recover"])
    /\ AgentUnchanged

\* the catch: a general page.act, waitForLoadState, title, path.push; then maxAttempts--
Recover(ok, page) ==
    /\ agent.pc = "recover"
    /\ Outcome(ok)
    /\ agent' = IF ok
                THEN Decremented([agent EXCEPT
                         !.page = page,
                         !.path = Append(@, RemoveFirst(page.title, WikiSuffix))])
                ELSE Thrown([agent EXCEPT !.page = page, !.pc = "lastResort"])
    /\ AgentUnchanged

\* a faulty variant: when going back throws as well, the attempt is not counted
LastResortUncounted(ok, page) ==
    /\ agent.pc = "lastResort"
    /\ Outcome(ok)
    /\ agent' = IF ok
                THEN Decremented([agent EXCEPT !.page = page, !.path = Pop(@)])
                ELSE Thrown([agent EXCEPT !.pc = "head"])
    /\ AgentUnchanged

\* recovery failed: page.goBack() and path.pop(), or nothing if that throws too;
\* then maxAttempts--
LastResort(ok, page) ==
    /\ agent.pc = "lastResort"
    /\ Outcome(ok)
    /\ agent' = IF ok
                THEN Decremented([agent EXCEPT !.page = page, !.path = Pop(@)])
                ELSE Thrown(Decremented(agent))
    /\ AgentUnchanged

\* the report after the loop
Report ==
    /\ agent.pc = "report"
    /\ agent' = [agent EXCEPT !.pc = "done",
                              !.report = IF agent.targetReached THEN "target reached"
                                         ELSE "target not reached"]
    /\ AgentUnchanged

NextAgent ==
    \/ /\ agent.pc = "idle"
       /\ \E links \in LinkLists, reply \in Replies, rnd \in 0..(MaxLinks - 1) :
             DecideBestLinkCall(links, reply, rnd)
    \/ \E pair \in Pairs, ok \in BOOLEAN : Main(pair, ok)
    \/ LoopHead
    \/ \E ok \in BOOLEAN : CheckTarget(ok)
    \/ \E ok \in BOOLEAN, links \in PageLinkLists : CollectLinks(ok, links)
    \/ \E reply \in PageReplies, rnd \in 0..(MaxPageLinks - 1) : Decide(reply, rnd)
    \/ \E ok \in BOOLEAN, page \in NavPages : Click(ok, page)
    \/ \E ok \in BOOLEAN, page \in NavPages : GoBack(ok, page)
    \/ \E ok \in BOOLEAN, page \in NavPages : Recover(ok, page)
    \/ \E ok \in BOOLEAN, page \in NavPages : LastResort(ok, page)
    \/ Report

SpecAgent == Init /\ [][NextAgent]_vars

\* a step of a running main(): each awaited call returns or throws. At the
\* await of decideBestLink one outcome of the reasoner stands for the step:
\* Decide is enabled for every outcome exactly when it is for this one, and
\* any outcome taken disables it, so fairness on it only excludes waiting
\* for ever and leaves the outcome free
AgentStep ==
    \/ LoopHead
    \/ \E ok \in BOOLEAN : CheckTarget(ok)
    \/ \E ok \in BOOLEAN, links \in PageLinkLists : CollectLinks(ok, links)
    \/ Decide(NoContent, 0)
    \/ \E ok \in BOOLEAN, page \in NavPages : Click(ok, page)
    \/ \E ok \in BOOLEAN, page \in NavPages : GoBack(ok, page)
    \/ \E ok \in BOOLEAN, page \in NavPages : Recover(ok, page)
    \/ \E ok \in BOOLEAN, page \in NavPages : LastResort(ok, page)
    \/ Report

\* main() is not suspended for ever at an await
FairAgent == SpecAgent /\ WF_vars(AgentStep)

-----------------------------------------------------------------------------
(* Claims *)

Status == gameState.status
Result == gameState.result[1]

\* C1 (as claimed): once completed, the outcome's winner, step counts and elapsed
\* times keep the values they got at completion, whatever lands later.  (The tier is
\* left out of this formula: the commentary response replaces it together with the
\* flavor text.)
C1_OutcomeNeverRecomputed ==
    [][(Status = "completed" /\ gameState'.status = "completed")
         => /\ gameState'.result[1].winner = Result.winner
            /\ gameState'.result[1].playerClicks = Result.playerClicks
            /\ gameState'.result[1].aiClicks = Result.aiClicks
            /\ gameState'.result[1].playerTime = Result.playerTime
            /\ gameState'.result[1].aiTime = Result.aiTime]_vars

\* C2 (as claimed): no step leaves completed, no step returns to not-started, and
\* startGame takes effect only when the status is not-started.
C2_StatusLinear ==
    [][/\ (Status = "completed" => gameState'.status = "completed")
       /\ (Status = "in-progress" => gameState'.status # "not-started")
       /\ (raceNo' # raceNo => Status = "not-started")]_vars

\* C2 (amended): within a race the status moves not-started -> in-progress ->
\* completed; no step returns to not-started; the only step that leaves completed is
\* startGame (Play Again), which goes to in-progress; startGame takes effect only
\* when the status is not-started or completed.
C2_StatusProgression ==
    [][/\ (gameState'.status = "not-started" => Status = "not-started")
       /\ (Status = "in-progress" => gameState'.status \in {"in-progress", "completed"})
       /\ (Status = "completed" /\ gameState'.status # "completed"
             => gameState'.status = "in-progress" /\ raceNo' = raceNo + 1)
       /\ (Status = "not-started" /\ gameState'.status # "not-started"
             => gameState'.status = "in-progress" /\ raceNo' = raceNo + 1)
       /\ (raceNo' # raceNo
             => Status \in {"not-started", "completed"}
                /\ gameState'.status = "in-progress")]_vars

\* a second race has been started from the completed first one
C2_Witness == raceNo = 2 /\ Status = "in-progress"

\* C3 (as claimed): a poll result that lands after the race has been completed
\* changes neither the race state nor the pending completions.
C3_LatePollIsNoOp ==
    [][(Status = "completed" /\ polls' # polls)
         => gameState' = gameState /\ aiWonTimers' = aiWonTimers]_vars

\* C4: a poll is issued only while the status is in-progress, running is true and
\* a session id is set, and after an endGame call (any reason) that condition is
\* false, so no poll is issued, until startGame runs again.
C4_NoPollAfterEndGame ==
    /\ [](ended # "" => ~(Status = "in-progress" /\ running /\ sessionId # 0))
    /\ [][issued' # issued
            => ended = "" /\ Status = "in-progress" /\ running /\ sessionId # 0]_vars

\* an error-abort after polls were issued: the status is still in-progress and the
\* session id is still set, and the poll budget is not what stops the polling
C4_Witness ==
    /\ ended = "error"
    /\ Status = "in-progress"
    /\ sessionId # 0
    /\ issued > 0
    /\ issued < MaxIssued

\* the race's agent path holds a step that fetchSessionData takes for the target
AgentStepAtTarget(gs) ==
    \E i \in 1..Len(gs.aiPath) :
        IsTargetReached(gs.aiPath[i].url, gs.aiPath[i].title, gs.targetPage)

C6_HumanDeclaredWin ==
    [][(/\ call'.op = "endGame"
        /\ call'.reason = "completed"
        /\ Status = "in-progress"
        /\ PlayerReachedTarget(gameState)
        /\ ~AiReachedTarget(gameState))
         => /\ gameState'.status = "completed"
            /\ gameState'.result # <<>>
            /\ gameState'.result[1].winner = "player"
            /\ gameState'.result[1].playerClicks = Len(gameState.playerPath)
            /\ gameState'.result[1].aiClicks = Len(gameState.aiPath)]_vars

\* such a completion with the agent path the longer one
C6_Witness ==
    /\ call.op = "endGame"
    /\ call.reason = "completed"
    /\ call.pre = "in-progress"
    /\ PlayerReachedTarget(gameState)
    /\ ~AiReachedTarget(gameState)
    /\ Result.winner = "player"
    /\ Result.playerClicks = Len(gameState.playerPath)
    /\ Result.aiClicks = Len(gameState.aiPath)
    /\ Len(gameState.aiPath) > Len(gameState.playerPath)

\* C7 (as claimed): when the race completes with both paths at the target and equal
\* step counts, the lower elapsed time wins, and with equal times the side that
\* signalled the completion.
C7_TimeTieBreak ==
    [][(/\ Status = "in-progress"
        /\ gameState'.status = "completed"
        /\ AiReachedTarget(gameState')
        /\ PlayerReachedTarget(gameState')
        /\ Len(gameState'.playerPath) = Len(gameState'.aiPath))
         => LET r == gameState'.result[1]
            IN /\ (r.aiTime < r.playerTime => r.winner = "ai")
               /\ (r.playerTime < r.aiTime => r.winner = "player")
               /\ (r.playerTime = r.aiTime
                     => r.winner = IF ended' = "ai-won" THEN "ai" ELSE "player")]_vars

\* C8 (as claimed): an outcome computed from paths that both hold the target and
\* differ in length names the side with fewer steps, whichever trigger computed it.
C8_FewerStepsWins ==
    (/\ Status = "completed"
     /\ Result.playerClicks = Len(gameState.playerPath)
     /\ Result.aiClicks = Len(gameState.aiPath)
     /\ AiReachedTarget(gameState)
     /\ PlayerReachedTarget(gameState)
     /\ Result.playerClicks # Result.aiClicks)
      => Result.winner = IF Result.playerClicks < Result.aiClicks THEN "player" ELSE "ai"

\* C9: handlePlayerNavigation called a second time in a row with the same locator
\* leaves the human path as the first call left it.
C9_NavigationIdempotent ==
    [][(call'.op = "handlePlayerNavigation" /\ call'.repeat)
         => gameState'.playerPath = gameState.playerPath]_vars

\* the first of the two calls appended the step, the second changed nothing
C9_Witness ==
    /\ call.op = "handlePlayerNavigation"
    /\ call.repeat
    /\ Len(gameState.playerPath) > 0
    /\ gameState.playerPath[Len(gameState.playerPath)].url = call.url

\* C10 (as claimed): handlePlayerNavigation while the status is not in-progress
\* leaves the race state unchanged.
C10_NavigationRejectedOutsideRace ==
    [][(call'.op = "handlePlayerNavigation" /\ Status # "in-progress")
         => gameState' = gameState]_vars

\* the link l is an element of the list links
InList(l, links) == \E i \in 1..Len(links) : links[i] = l

\* C11: for a non-empty candidate list, whatever the reasoner does (a text, no
\* content, a thrown error), decideBestLink returns an element of that list.
C11_ResultIsACandidate ==
    (pick.done /\ Len(pick.links) > 0) => InList(pick.bestLink, pick.links)

\* the reasoner's answer matches none of three candidates and the first is returned
C11_Witness ==
    /\ pick.done
    /\ Len(pick.links) = 3
    /\ pick.reply = Content(<<"z", "z">>)
    /\ pick.bestLink = pick.links[1]

\* C12: decideBestLink returns null exactly when its list is empty, and then without
\* asking the reasoner; in the loop an empty list, like a null result, leads to the
\* dead-end branch, which calls page.goBack and, when that returns, drops the last
\* path entry.
C12_NullIffEmpty ==
    /\ [](pick.done => /\ (pick.bestLink = Null) <=> (Len(pick.links) = 0)
                       /\ (Len(pick.links) = 0 => ~pick.asked))
    /\ [](/\ (agent.pc = "decide" => Len(agent.links) > 0)
          /\ (agent.pc = "click" => agent.bestLink # Null)
          /\ (agent.pc = "back" => (Len(agent.links) = 0 \/ agent.bestLink = Null)))
    /\ [][/\ (agent.pc = "links" /\ agent'.pc \in {"decide", "back"}
                => (agent'.pc = "back") <=> (Len(agent'.links) = 0))
          /\ (agent.pc = "back" /\ agent'.pc = "head"
                => /\ Len(agent.path) > 0
                      => agent'.path = SubSeq(agent.path, 1, Len(agent.path) - 1)
                   /\ agent'.maxAttempts = agent.maxAttempts - 1)]_vars

\* decideBestLink was called with an empty list
C12_Witness ==
    /\ pick.done
    /\ Len(pick.links) = 0
    /\ pick.bestLink = Null
    /\ ~pick.asked

\* the reasoner's answer as decideBestLink uses it: the message content, trimmed
Answer == Trim(pick.reply.content)

\* C13: when the reasoner's answer equals the text of some candidate, decideBestLink
\* returns the first candidate of the list with exactly that text, even when an
\* earlier candidate contains the answer or shares words with it.
C13_ExactMatchFirst ==
    (/\ pick.done
     /\ pick.reply.kind = "text"
     /\ Answer # <<>>
     /\ \E i \in 1..Len(pick.links) : pick.links[i].text = Answer)
      => LET first == CHOOSE i \in 1..Len(pick.links) :
                         /\ pick.links[i].text = Answer
                         /\ \A j \in 1..(i - 1) : pick.links[j].text # Answer
         IN pick.bestLink = pick.links[first]

\* the first candidate contains the answer, the second equals it and is returned
C13_Witness ==
    /\ pick.done
    /\ pick.reply.kind = "text"
    /\ Len(pick.links) >= 2
    /\ pick.links[1].text # Answer
    /\ Includes(pick.links[1].text, Answer)
    /\ pick.links[2].text = Answer
    /\ pick.bestLink = pick.links[2]

\* a call in which neither tier 1 nor tier 2 finds a candidate for the answer
TiersOneAndTwoFail ==
    /\ pick.done
    /\ pick.reply.kind = "text"
    /\ Answer # <<>>
    /\ Len(pick.links) > 0
    /\ ExactMatch(pick.links, Answer) = Null
    /\ FuzzyMatch(pick.links, Answer) = Null

\* whether more than half of the answer's words occur in the link's lower-case text
ScoreOverHalf(link) ==
    2 * WordsFound(link, BestLinkWords(Answer)) > Len(BestLinkWords(Answer))

\* C14: when tiers 1 and 2 find nothing, a candidate whose score is at most 0.5 is
\* never taken by tier 3: if every score is at most 0.5 the first candidate of the
\* list is returned, and otherwise the returned candidate has a score above 0.5 that
\* no other candidate exceeds.
C14_TokenThreshold ==
    TiersOneAndTwoFail
      => IF \A i \in 1..Len(pick.links) : ~ScoreOverHalf(pick.links[i])
         THEN pick.bestLink = pick.links[1]
         ELSE /\ ScoreOverHalf(pick.bestLink)
              /\ \A i \in 1..Len(pick.links) :
                    WordsFound(pick.links[i], BestLinkWords(Answer))
                        <= WordsFound(pick.bestLink, BestLinkWords(Answer))

\* the second candidate has exactly half of the answer's words, the first none, and
\* the first is returned
C14_Witness ==
    /\ TiersOneAndTwoFail
    /\ Len(pick.links) >= 2
    /\ Len(BestLinkWords(Answer)) = 2
    /\ WordsFound(pick.links[1], BestLinkWords(Answer)) = 0
    /\ WordsFound(pick.links[2], BestLinkWords(Answer)) = 1
    /\ \A i \in 1..Len(pick.links) : ~ScoreOverHalf(pick.links[i])
    /\ pick.bestLink = pick.links[1]

\* the text starts with a capital letter: a character that has a lower-case form
CapitalizedInitial(text) == text # <<>> /\ LowerChar(text[1]) # text[1]

\* C15 (as claimed): when the reasoner call fails, the result is one of the candidates
\* whose text is longer than 10 characters or starts with a capital letter, if there
\* is such a candidate, and one of all candidates otherwise.
C15_FallbackPrefersCapitalized ==
    (pick.done /\ pick.reply.kind = "throws" /\ Len(pick.links) > 0)
      => LET preferred == {i \in 1..Len(pick.links) :
                              \/ Len(pick.links[i].text) > 10
                              \/ CapitalizedInitial(pick.links[i].text)}
         IN IF preferred # {}
            THEN \E i \in preferred : pick.bestLink = pick.links[i]
            ELSE InList(pick.bestLink, pick.links)

\* C16: the loop of main() ends.  Inside the loop the iterations begun and the
\* attempts left add up to 15 at the loop condition (16 inside the body, the begun
\* iteration being counted before its attempt is), so every iteration that does not
\* detect the target costs exactly one attempt, whatever throws; no more than 15
\* iterations begin; and a begun loop leads to one of the two reports.
C16_LoopTerminates ==
    /\ [](agent.pc \notin {"idle", "failed"}
            => /\ agent.iter <= 15
               /\ agent.maxAttempts >= 0
               /\ agent.iter + agent.maxAttempts =
                    IF agent.pc = "head" THEN 15
                    ELSE IF agent.pc \in {"report", "done"}
                         THEN (IF agent.targetReached THEN 16 ELSE 15)
                    ELSE 16)
    /\ (agent.pc = "head")
         ~> (agent.pc = "done" /\ agent.report \in {"target reached", "target not reached"})

\* a run in which calls threw as often as the model lets them, which used all 15
\* attempts and reported that the target was not reached
C16_Witness ==
    /\ agent.pc = "done"
    /\ agent.report = "target not reached"
    /\ agent.iter = 15
    /\ agent.thrown = MaxThrows

\* C17: a failed race setup never leaves the race in in-progress: the status is
\* not in-progress while the automation session of the race is still being
\* started, and once the setup of the race has failed the status is not
\* in-progress and the error message is recorded.
C17_FailedSetupNotInProgress ==
    raceNo > 0 =>
        /\ setups[raceNo] = "session" => Status # "in-progress"
        /\ setups[raceNo] = "done" => Status # "in-progress" /\ error # <<>>

\* C18: immediately after startGame(start, target) takes effect the race state has
\* status in-progress, the topics of the call, an empty playerPath, an empty
\* aiPath, startTime set (to the time of the call) and no result, whatever the
\* previous race left behind.
C18_StartGameFreshRace ==
    [][raceNo' # raceNo
         => /\ gameState'.status = "in-progress"
            /\ [start |-> gameState'.startPage, target |-> gameState'.targetPage] \in Pairs
            /\ gameState'.playerPath = <<>>
            /\ gameState'.aiPath = <<>>
            /\ gameState'.startTime = now
            /\ gameState'.startTime # NullTime
            /\ gameState'.endTime = NullTime
            /\ gameState'.result = <<>>]_vars

\* a second race just started by Play Again after the clock moved, links were
\* clicked and polls were issued, the commentary of the first race still in flight
C18_Witness ==
    /\ raceNo = 2
    /\ setups[2] \in {"session", "run"}
    /\ gameState.status = "in-progress"
    /\ gameState.playerPath = <<>>
    /\ gameState.aiPath = <<>>
    /\ gameState.result = <<>>
    /\ gameState.startTime = now
    /\ now > 0
    /\ clicks > 0
    /\ issued > 0
    /\ commentaryReqs # EmptyBag

\* the last step of a path
LastStep(path) == path[Len(path)]

\* C19: when a step that matches the target is recorded for the agent while the
\* player's path already holds a step matching the target, the step is appended to
\* aiPath and nothing else happens: no endGame('ai-won') is scheduled, and the
\* status and the result stay as they were.
C19_NoAgentWinAfterHumanTarget ==
    [][(/\ Len(gameState'.aiPath) = Len(gameState.aiPath) + 1
        /\ IsTargetReached(LastStep(gameState'.aiPath).url, LastStep(gameState'.aiPath).title,
                           gameState.targetPage)
        /\ PlayerReachedTarget(gameState))
         => /\ gameState' = [gameState EXCEPT
                               !.aiPath = Append(@, LastStep(gameState'.aiPath))]
            /\ aiWonTimers' = aiWonTimers
            /\ ended' = ended
            /\ commentaryReqs' = commentaryReqs]_vars

\* the agent's target step recorded at time 1 after the player's target step of
\* time 0, and no agent-won completion pending or made
C19_Witness ==
    /\ raceNo = 1
    /\ PlayerReachedTarget(gameState)
    /\ \A i \in 1..Len(gameState.playerPath) : gameState.playerPath[i].timestamp = 0
    /\ gameState.aiPath # <<>>
    /\ LastStep(gameState.aiPath).timestamp = 1
    /\ IsTargetReached(LastStep(gameState.aiPath).url, LastStep(gameState.aiPath).title,
                       gameState.targetPage)
    /\ aiWonTimers[1] = 0
    /\ ended # "ai-won"

\* the page handlePlayerNavigation was last called for
CalledPage == CHOOSE p \in HumanPages : p.url = call.url

\* C20: handlePlayerNavigation alone never completes the race: called during a
\* race with a new url and a title that normalizes (spaces to underscores) to the
\* target, it appends the step and leaves the status in-progress and the result
\* empty; the status becomes completed only by a call of endGame.
C20_NavigationNeverCompletes ==
    /\ [][(/\ call'.op = "handlePlayerNavigation"
           /\ Status = "in-progress"
           /\ ~PathHasUrl(gameState.playerPath, call'.url)
           /\ ReplaceAll(CalledPage'.title, " ", "_") = gameState.targetPage)
            => /\ gameState'.playerPath =
                    Append(gameState.playerPath,
                           [url |-> call'.url, title |-> CalledPage'.title, timestamp |-> now])
               /\ gameState'.status = "in-progress"
               /\ gameState'.result = <<>>]_vars
    /\ [][(Status # "completed" /\ gameState'.status = "completed")
            => call'.op = "endGame"]_vars

\* the human's target step was just recorded and the race is still running
C20_Witness ==
    /\ call.op = "handlePlayerNavigation"
    /\ ~call.repeat
    /\ call.pre = "in-progress"
    /\ Status = "in-progress"
    /\ gameState.result = <<>>
    /\ gameState.playerPath # <<>>
    /\ LastStep(gameState.playerPath).url = call.url
    /\ ReplaceAll(LastStep(gameState.playerPath).title, " ", "_") = gameState.targetPage

\* no two steps of the path have the same url
NoRepeatedUrl(path) ==
    \A i, j \in 1..Len(path) : path[i].url = path[j].url => i = j

\* C21: in every race state neither playerPath nor aiPath holds two steps with the
\* same url: a visit to a url anywhere on the path is not appended again.
C21_PathsHaveNoRepeatedUrl ==
    /\ NoRepeatedUrl(gameState.playerPath)
    /\ NoRepeatedUrl(gameState.aiPath)

\* the agent's updater was just applied to the url of the first of several steps,
\* which is not the last one, and nothing was appended
C21_Witness ==
    /\ call.op = "recordAgentStep"
    /\ Len(gameState.aiPath) >= 2
    /\ gameState.aiPath[1].url = call.url
    /\ LastStep(gameState.aiPath).url # call.url
    /\ Len(gameState.playerPath) >= 2

\* C22 (as claimed): handlePlayerNavigation during a race appends a step whenever
\* the url differs from the url of the last step of playerPath: only an immediate
\* repeat is suppressed.
C22_OnlyImmediateRepeatSuppressed ==
    [][(/\ call'.op = "handlePlayerNavigation"
        /\ Status = "in-progress"
        /\ (gameState.playerPath = <<>> \/ LastStep(gameState.playerPath).url # call'.url))
         => Len(gameState'.playerPath) = Len(gameState.playerPath) + 1]_vars

\* path p is an initial part of path q
IsPrefix(p, q) == Len(p) <= Len(q) /\ SubSeq(q, 1, Len(p)) = p

\* C23: within one race (no startGame in the step) playerPath and aiPath are
\* append-only: in every step the old path is an initial part of the new one.
C23_PathsAppendOnly ==
    [][raceNo' = raceNo
         => /\ IsPrefix(gameState.playerPath, gameState'.playerPath)
            /\ IsPrefix(gameState.aiPath, gameState'.aiPath)]_vars

\* both paths have grown to two steps and the race was then completed and its
\* commentary replaced
C23_Witness ==
    /\ raceNo = 1
    /\ Len(gameState.playerPath) >= 2
    /\ Len(gameState.aiPath) >= 2
    /\ Status = "completed"
    /\ Result.commentary # Placeholder

\* C24: in every race state the result is present if and only if the status is
\* completed.
C24_ResultIffCompleted ==
    gameState.result # <<>> <=> Status = "completed"

\* a second race is running without a result, the first one having been completed
\* with a result whose commentary request has been answered
C24_Witness ==
    /\ raceNo = 2
    /\ Status = "in-progress"
    /\ gameState.result = <<>>
    /\ commentaryReqs = EmptyBag
    /\ ~isCommentaryLoading
    /\ Len(gameState.aiPath) > 0

\* C25: handlePlayerNavigation, the updater of fetchSessionData, endGame and the
\* commentary replacement leave startPage, targetPage and startTime unchanged:
\* in every step that does not start a race the three fields keep their values.
C25_TopicsAndStartFixed ==
    [][raceNo' = raceNo
         => /\ gameState'.startPage = gameState.startPage
            /\ gameState'.targetPage = gameState.targetPage
            /\ gameState'.startTime = gameState.startTime]_vars

\* a race started at time 0 that recorded steps of both sides, was completed at
\* time 1 and had its commentary replaced still has the topics and the start time
\* startGame set
C25_Witness ==
    /\ raceNo = 1
    /\ Status = "completed"
    /\ gameState.endTime = 1
    /\ Result.commentary # Placeholder
    /\ gameState.playerPath # <<>>
    /\ gameState.aiPath # <<>>
    /\ gameState.startTime = 0
    /\ [start |-> gameState.startPage, target |-> gameState.targetPage] \in Pairs

\* C26: endGame sets the placeholder commentary in the step that sets the status to
\* completed, and a placeholder shown in a completed race is eventually replaced,
\* by the generated commentary or by a fallback text, unless the race is replaced
\* first; the commentary-loading flag eventually returns to false.
C26_PlaceholderReplaced ==
    /\ [][(Status # "completed" /\ gameState'.status = "completed")
            => gameState'.result[1].commentary = Placeholder]_vars
    /\ (Status = "completed" /\ Result.commentary = Placeholder)
         ~> (Status # "completed"
               \/ Result.commentary \in {Generated, FallbackPlayer, FallbackAi})
    /\ isCommentaryLoading ~> ~isCommentaryLoading

\* the request failed and the race, still completed, shows a fallback text
C26_Witness ==
    /\ Status = "completed"
    /\ Result.commentary \in {FallbackPlayer, FallbackAi}
    /\ Result.rating \in {"cracked", "cooked"}
    /\ commentaryReqs = EmptyBag
    /\ ~isCommentaryLoading

\* C27 (as claimed): in every completed race whose winner is the player, playerPath
\* holds a step whose title, spaces replaced by underscores, is the target page.
C27_HumanWinnerReachedTarget ==
    (Status = "completed" /\ Result.winner = "player")
        => \E i \in 1..Len(gameState.playerPath) :
              ReplaceAll(gameState.playerPath[i].title, " ", "_") = gameState.targetPage

\* C28 (as claimed): the agent's completion is immediate: in no race state is the
\* status still in-progress while aiPath holds a step matching the target and
\* playerPath holds none.
C28_AgentCompletionImmediate ==
    ~(/\ Status = "in-progress"
      /\ \E i \in 1..Len(gameState.aiPath) :
            IsTargetReached(gameState.aiPath[i].url, gameState.aiPath[i].title,
                            gameState.targetPage)
      /\ ~\E i \in 1..Len(gameState.playerPath) :
            ReplaceAll(gameState.playerPath[i].title, " ", "_") = gameState.targetPage)

\* C29 (as claimed): an endGame('ai-won') scheduled during one race, when it runs
\* after a later race was started, changes nothing of the race state.
C29_RacesIsolated ==
    [][(\E r \in Races : r < raceNo /\ aiWonTimers'[r] < aiWonTimers[r])
         => gameState' = gameState]_vars

\* C30 (as claimed): every step of a race's aiPath was observed from the session
\* started for that race: a poll of another race's session id, when it is answered,
\* neither appends a step to aiPath nor schedules endGame('ai-won').
C30_StepsFromOwnSession ==
    [][(\E p \in polls : p \notin polls' /\ p.sid # raceNo)
         => /\ gameState'.aiPath = gameState.aiPath
            /\ aiWonTimers' = aiWonTimers]_vars

\* C31 (as claimed): a commentary response requested for one race is never written
\* into the result of another: when the response of a request made in an earlier
\* race arrives, the race state is left as it is.
C31_CommentaryStaysInItsRace ==
    [][\A req \in BagToSet(commentaryReqs) :
          (commentaryReqs' = commentaryReqs (-) SetToBag({req}) /\ req.race # raceNo)
             => gameState' = gameState]_vars

\* C32 (as claimed): when main() has left its loop and reported, it reported
\* success if and only if the page the agent is on matches the target (its title
\* contains the target with underscores as spaces, or its url contains the target,
\* ignoring case).
C32_ReportMatchesPage ==
    agent.pc = "done"
        => (agent.report = "target reached"
              <=> TargetDetected(agent.page.title, agent.page.url, agent.targetPage))

\* C33 (as claimed): in every completed race whose winner is the agent, aiPath holds
\* a step that matches the target: its title with spaces replaced by underscores is
\* the target page, or its url contains /wiki/ followed by the target page.
C33_AgentWinnerReachedTarget ==
    (Status = "completed" /\ Result.winner = "ai")
        => \E i \in 1..Len(gameState.aiPath) :
              \/ ReplaceAll(gameState.aiPath[i].title, " ", "_") = gameState.targetPage
              \/ Includes(gameState.aiPath[i].url, WikiSlash \o gameState.targetPage)

\* C34 (as claimed): in every completed race the rating agrees with the winner:
\* 'cracked' only with winner player and 'cooked' only with winner ai.
C34_RatingAgreesWithWinner ==
    Status = "completed"
        => /\ Result.rating = "cracked" => Result.winner = "player"
           /\ Result.rating = "cooked" => Result.winner = "ai"

\* C35 (as claimed): throughout the loop of main() and at its report the path is
\* not empty and begins with the start page, so the click count reported
\* (path.length - 1) is not negative.
C35_PathKeepsStartPage ==
    agent.pc \notin {"idle", "failed"}
        => /\ Len(agent.path) - 1 >= 0
           /\ \E pair \in Pairs : agent.path[1] = pair.start

\* the urls of a path's steps, in order
PathUrls(path) == [i \in 1..Len(path) |-> path[i].url]

\* C36 (as claimed): steps are counted on the same basis for both sides: when the
\* human and the agent went from the start page to the target through the same
\* pages (the human's route being the start page followed by the pages reported by
\* WikiFrame, the agent's the pages its session was seen on), the result of the
\* completed race, computed from these paths, has playerClicks = aiClicks.
C36_SameRouteSameCount ==
    (/\ Status = "completed"
     /\ gameState.playerPath # <<>>
     /\ PathUrls(gameState.aiPath)
          = <<WikiUrl(gameState.startPage)>> \o PathUrls(gameState.playerPath)
     /\ LastStep(gameState.playerPath).url = WikiUrl(gameState.targetPage)
     /\ Result.playerClicks = Len(gameState.playerPath)
     /\ Result.aiClicks = Len(gameState.aiPath))
        => Result.playerClicks = Result.aiClicks

\* C37 (as claimed): whenever a step of an iteration throws, the last entry of the
\* path has been removed by the time the general recovery action is attempted.
C37_RecoveryPopsFirst ==
    [][(agent.pc # "recover" /\ agent'.pc = "recover")
         => agent'.path = SubSeq(agent.path, 1, Len(agent.path) - 1)]_vars

\* whether the link's text equals the answer when case is ignored, contains the
\* answer, or is contained in it
LooselyMatches(link) ==
    \/ ToLowerCase(link.text) = ToLowerCase(Answer)
    \/ Includes(link.text, Answer)
    \/ Includes(Answer, link.text)

\* C38: when no candidate's text equals the answer, decideBestLink returns the
\* first candidate of the list whose text equals the answer ignoring case, contains
\* the answer or is contained in the answer, if there is one; only when there is
\* none can tier 3 choose.
C38_LooseMatchSecond ==
    (/\ pick.done
     /\ pick.reply.kind = "text"
     /\ Answer # <<>>
     /\ \A i \in 1..Len(pick.links) : pick.links[i].text # Answer
     /\ \E i \in 1..Len(pick.links) : LooselyMatches(pick.links[i]))
      => LET first == CHOOSE i \in 1..Len(pick.links) :
                         /\ LooselyMatches(pick.links[i])
                         /\ \A j \in 1..(i - 1) : ~LooselyMatches(pick.links[j])
         IN pick.bestLink = pick.links[first]

\* the second candidate equals the answer only when case is ignored and is
\* returned, although the first candidate holds every word of the answer
C38_Witness ==
    /\ pick.done
    /\ pick.reply.kind = "text"
    /\ Answer # <<>>
    /\ Len(pick.links) >= 2
    /\ ~LooselyMatches(pick.links[1])
    /\ ScoreOverHalf(pick.links[1])
    /\ pick.links[2].text # Answer
    /\ ~Includes(pick.links[2].text, Answer)
    /\ ~Includes(Answer, pick.links[2].text)
    /\ ToLowerCase(pick.links[2].text) = ToLowerCase(Answer)
    /\ pick.bestLink = pick.links[2]

\* C39: the reasoner is offered exactly the first min(75, n) of the n candidates,
\* in list order, while the answer is matched against the whole list (an exact
\* match anywhere in it is returned, the first such) and the default is the first
\* candidate of the whole list.
C39_TruncationOnlyInPrompt ==
    (pick.done /\ pick.asked) =>
        /\ Len(pick.sample) = IF Len(pick.given) < SampleSize THEN Len(pick.given)
                                                              ELSE SampleSize
        /\ \A i \in 1..Len(pick.sample) : pick.sample[i] = pick.given[i]
        /\ (pick.reply.kind = "text" /\ Answer # <<>>) =>
              \A i \in 1..Len(pick.given) :
                  (/\ pick.given[i].text = Answer
                   /\ \A j \in 1..(i - 1) : pick.given[j].text # Answer)
                     => pick.bestLink = pick.given[i]
        /\ (\/ pick.reply.kind = "null"
            \/ pick.reply.kind = "text" /\ Answer = <<>>
            \/ /\ pick.reply.kind = "text"
               /\ Answer # <<>>
               /\ \A i \in 1..Len(pick.given) :
                     /\ pick.given[i].text # Answer
                     /\ ~LooselyMatches(pick.given[i])
                     /\ ~ScoreOverHalf(pick.given[i]))
              => pick.bestLink = pick.given[1]

\* a list of more than 75 candidates of which 75 are offered, and the candidate
\* returned is the 76th, which is none of those offered
C39_Witness ==
    /\ pick.done
    /\ pick.asked
    /\ Len(pick.given) > SampleSize
    /\ Len(pick.sample) = SampleSize
    /\ pick.bestLink = pick.given[SampleSize + 1]
    /\ \A i \in 1..Len(pick.sample) : pick.sample[i] # pick.bestLink

\* a call that ends at the first-candidate default: no answer, an empty answer,
\* or an answer that no tier resolves
TakesDefault ==
    /\ pick.done
    /\ pick.asked
    /\ \/ pick.reply.kind = "null"
       \/ pick.reply.kind = "text" /\ Answer = <<>>
       \/ /\ pick.reply.kind = "text"
          /\ ExactMatch(pick.given, Answer) = Null
          /\ FuzzyMatch(pick.given, Answer) = Null
          /\ \A i \in 1..Len(pick.given) : ~ScoreOverHalf(pick.given[i])

====
